---------------------------- MODULE Spec2Model ----------------------------
(***************************************************************************)
(* State machine of the sheet-music viewer of src/App.tsx: the session     *)
(* (pages, per-page intervals, optional media), the playback controller    *)
(* (current spread, play/pause, the one-shot countdown of the timer        *)
(* effect) and the configuration view that edits the intervals.            *)
(*                                                                         *)
(* One step of the model is one event-loop task of the program: an event   *)
(* handler or callback, the render it causes and the effects of that       *)
(* render.  The timer effect (App.tsx 294-315) is therefore part of every  *)
(* action that changes one of its dependencies.                            *)
(*                                                                         *)
(* togglePlayPause, goToNextPage and goToPrevPage are the entry points of  *)
(* the playback controller; they are modelled with their own guards and    *)
(* are callable whenever the viewing screen is shown.  The footer's        *)
(* rendering condition (pages non-empty) and the buttons' disabled         *)
(* attributes only pre-filter calls in which these handlers change         *)
(* nothing but what the pause button can change too, so the reachable      *)
(* program states are the same.  Handlers without a guard of their own     *)
(* are enabled exactly when their control is rendered and enabled.         *)
(***************************************************************************)
EXTENDS Integers, Sequences, FiniteSets

(***************************************************************************)
(* Bounds of the model.                                                    *)
(***************************************************************************)
MaxPages == 3

MaxPending == 1

MaxEdits == 1

MaxEntries == 4

(***************************************************************************)
(* Program constants.                                                      *)
(***************************************************************************)
FallbackSeconds == 30

FillSeconds == 30

InitialDefaultInterval == 30

(***************************************************************************)
(* JavaScript values found in interval lists: numbers, NaN (parseInt of a  *)
(* non-numeric string) and undefined (a hole of a sparse array, an index   *)
(* past the end).                                                          *)
(***************************************************************************)
Num(n) == [t |-> "num", n |-> n]

NaN == [t |-> "nan", n |-> 0]

Undefined == [t |-> "undef", n |-> 0]

IsNum(v) == v.t = "num"

\* JavaScript truthiness of a number-or-undefined value
Truthy(v) == IsNum(v) /\ v.n # 0

\* v || d
OrElse(v, d) == IF Truthy(v) THEN v ELSE d

\* Math.max(a, b): NaN as soon as one argument is not a number
MathMax(a, b) ==
    IF IsNum(a) /\ IsNum(b)
    THEN (IF a.n >= b.n THEN a ELSE b)
    ELSE NaN

\* the strings typed into the number inputs of the configuration view
InputStrings == {"", "0", "2"}

\* parseInt(value, 10) on the strings above
ParseInt(s) ==
    CASE s = "0" -> Num(0)
      [] s = "2" -> Num(2)
      [] s = "-5" -> Num(0 - 5)
      [] s = "2.5" -> Num(2)
      [] OTHER -> NaN

\* arr[i] with a 0-based index
At(arr, i) == IF i + 1 \in DOMAIN arr THEN arr[i + 1] ELSE Undefined

\* copy = [...arr]; copy[i] = v   (extends the array, leaving holes)
SetAt(arr, i, v) ==
    [k \in 1..(IF Len(arr) > i + 1 THEN Len(arr) ELSE i + 1) |->
        IF k = i + 1 THEN v ELSE At(arr, k - 1)]

\* new Array(n).fill(v)
Fill(n, v) == [k \in 1..n |-> v]

MinOf(S) == CHOOSE x \in S : \A y \in S : x <= y

(***************************************************************************)
(* State.                                                                  *)
(***************************************************************************)
VARIABLES
    sheetPages,        \* useState<string[]>: the page URLs
    mediaSrc,          \* useState<string | null>
    mediaFile,         \* useState<File | null>
    mediaType,         \* useState<MediaType>
    currentLeftIndex,  \* useState<number>
    isPlaying,         \* useState<boolean>
    isLoading,         \* useState<boolean>
    appState,          \* useState<AppState>
    pageIntervals,     \* useState<number[]>
    timerRef,          \* timerRef.current: the id of a pending timeout, else 0
    timers,            \* the window's pending timeouts
    cfgIntervals,      \* ConfigurationView: useState(initialIntervals)
    defaultInterval,   \* ConfigurationView: useState(30)
    mediaCmd,          \* last playback request made to the mounted media element
    pendingPlays,      \* play() promises not yet settled
    stalePlays,        \* those of them requested before the latest press of play
    pendingLoad,       \* the handler awaiting: "none", "zip", "files", "export"
    edits,             \* number of edits made in configuration views
    lastOp,            \* the handler that ran last
    pageRevokes,       \* URL.revokeObjectURL calls each URL of sheetPages got
    mediaRevokes,      \* URL.revokeObjectURL calls the URL in mediaSrc got
    narrow,            \* window.innerWidth < 768 now
    labelMobile,       \* isMobile as renderPageNumber saw it at the last render
    dropped,           \* the handles the last step took out of the session
    call,              \* a function applied on its own: its name and input
    result             \* the value that application returned

vars == <<sheetPages, mediaSrc, mediaFile, mediaType, currentLeftIndex,
          isPlaying, isLoading, appState, pageIntervals, timerRef, timers,
          cfgIntervals, defaultInterval, mediaCmd, pendingPlays, stalePlays,
          pendingLoad,
          edits, lastOp, pageRevokes, mediaRevokes, narrow, labelMobile,
          dropped, call, result>>

totalPages == Len(sheetPages)

(***************************************************************************)
(* Rendering: which element holds mediaRef.                                *)
(***************************************************************************)
\* mediaRef.current is non-null: the <audio> or <video> of App is mounted
MediaMounted(loading, app, mtype, msrc) ==
    /\ ~loading
    /\ app # "configuring"
    /\ \/ mtype = "audio"
       \/ mtype = "video" /\ msrc # "null" /\ app # "upload"

MediaRefSet == MediaMounted(isLoading, appState, mediaType, mediaSrc)

\* a request survives only as long as the element it was made to
KeepCmd(cmd, loading, app, mtype, msrc) ==
    IF MediaMounted(loading, app, mtype, msrc) THEN cmd ELSE "none"

(***************************************************************************)
(* The countdown effect.                                                   *)
(***************************************************************************)
\* mutant of ClearTimeout: the pending timer is left alone
ClearTimeoutSkipped(ts, id) == ts

\* clearTimeout(id)
ClearTimeout(ts, id) == {t \in ts : t.id # id}

\* mutant of ShouldArm: the effect does not look at isPlaying
ShouldArmPaused(playing, app, left, total) ==
    /\ app = "viewing"
    /\ left + 1 < total
    /\ left + 2 < total

\* the two conditions under which the effect arms a timer
ShouldArm(playing, app, left, total) ==
    /\ playing
    /\ app = "viewing"
    /\ left + 1 < total
    /\ left + 2 < total

\* pageIntervals[intervalIndex] || 30
IntervalForCurrentView(ivs, intervalIndex) ==
    OrElse(At(ivs, intervalIndex), Num(FallbackSeconds)).n

\* window.setTimeout returns an id no pending timer has
FreshId(ts) ==
    MinOf({i \in 1..(Cardinality(ts) + 1) : \A t \in ts : t.id # i})

\* mutant of RunEffect: the effect clears the timeout and arms none
RunEffectCleanupOnly(ts, ref, playing, app, left, ivs, total) ==
    [timers |-> ClearTimeout(ts, ref), timerRef |-> ref]

\* cleanup of the previous run followed by the body of the effect
RunEffect(ts, ref, playing, app, left, ivs, total) ==
    LET cleared == ClearTimeout(ts, ref)
    IN  IF ShouldArm(playing, app, left, total)
        THEN LET id == FreshId(cleared)
             IN  [timers |-> cleared \cup
                        {[id |-> id, at |-> left, total |-> total,
                          secs |-> IntervalForCurrentView(ivs, left + 1)]},
                  timerRef |-> id]
        ELSE [timers |-> cleared, timerRef |-> ref]

\* timerRef.current as clearTimeout sees it: the id of a timeout that has
\* fired or was cleared is never given out again, and clearing it does
\* nothing, so it is kept as 0, like null
Handle(ts, ref) == IF \E t \in ts : t.id = ref THEN ref ELSE 0

\* mutant of DepsChanged: currentLeftIndex is missing from the dependencies
DepsChangedButLeft(playing, app, left, ivs, total) ==
    <<playing, ivs, app, total>> #
    <<isPlaying, pageIntervals, appState, totalPages>>

\* the dependency list of the effect
DepsChanged(playing, app, left, ivs, total) ==
    <<playing, left, ivs, app, total>> #
    <<isPlaying, currentLeftIndex, pageIntervals, appState, totalPages>>

\* the render after a handler: the effect runs if a dependency changed.
\* ts: the pending timers the handler left
Commit(ts, playing, app, left, ivs, total) ==
    LET e == IF DepsChanged(playing, app, left, ivs, total)
             THEN RunEffect(ts, timerRef, playing, app, left, ivs, total)
             ELSE [timers |-> ts, timerRef |-> timerRef]
    IN  /\ timers' = e.timers
        /\ timerRef' = Handle(e.timers, e.timerRef)

(***************************************************************************)
(* Object URLs: URL.revokeObjectURL in the handlers and in the cleanup of  *)
(* the effect on [sheetPages, mediaSrc].                                   *)
(***************************************************************************)
\* no handle left the session
NoDrop == [pages |-> 0 - 1, media |-> 0 - 1]

\* The revokeObjectURL calls of one step.  hPages, hMedia: the calls the
\* handler itself makes on every page URL and on mediaSrc; setPages: it
\* calls setSheetPages (a new array); setMedia: it calls setMediaSrc with
\* another value.  When one of the two dependencies changed, the cleanup of
\* the effect revokes the page URLs and mediaSrc of the render before.
\* dropped' tells, for the page URLs and for the media URL that left the
\* state, how many calls each received in all (-1: none left).
Released(hPages, hMedia, setPages, setMedia) ==
    LET cleanup == IF setPages \/ setMedia THEN 1 ELSE 0
        pagesGot == pageRevokes + hPages + cleanup
        mediaGot == mediaRevokes + hMedia + cleanup
    IN  /\ pageRevokes' =
              IF setPages \/ sheetPages = <<>> THEN 0 ELSE pagesGot
        /\ mediaRevokes' =
              IF setMedia \/ mediaSrc = "null" THEN 0 ELSE mediaGot
        /\ dropped' =
              [pages |-> IF setPages /\ sheetPages # <<>>
                         THEN pagesGot ELSE 0 - 1,
               media |-> IF setMedia /\ mediaSrc # "null"
                         THEN mediaGot ELSE 0 - 1]

\* a step of a handler that revokes nothing and sets neither dependency
NoRelease == Released(0, 0, FALSE, FALSE)

\* no function is being applied on its own
NoCall == [f |-> "none"]

(***************************************************************************)
(* Initial state: the component as constructed.                            *)
(***************************************************************************)
AppInit ==
    /\ sheetPages = <<>>
    /\ mediaSrc = "null"
    /\ mediaFile = "null"
    /\ mediaType = "null"
    /\ currentLeftIndex = 0 - 1
    /\ isPlaying = FALSE
    /\ isLoading = FALSE
    /\ appState = "upload"
    /\ pageIntervals = <<>>
    /\ timerRef = 0
    /\ timers = {}
    /\ cfgIntervals = <<>>
    /\ defaultInterval = Num(InitialDefaultInterval)
    /\ mediaCmd = "none"
    /\ pendingPlays = 0
    /\ stalePlays = 0
    /\ pendingLoad = "none"
    /\ edits = 0
    /\ lastOp = "init"
    /\ pageRevokes = 0
    /\ mediaRevokes = 0
    /\ narrow = FALSE
    /\ labelMobile = FALSE
    /\ dropped = NoDrop

Init ==
    /\ AppInit
    /\ call = NoCall
    /\ result = NoCall


(***************************************************************************)
(* Rendering of a new state.                                               *)
(***************************************************************************)
\* App returns <ConfigurationView> (isLoading is tested first)
ConfigShown(loading, app) == ~loading /\ app = "configuring"

\* The state a handler leaves, rendered: the state variables take the
\* handler's values, the countdown effect runs on the new dependencies, the
\* media element and the configuration view are mounted or unmounted.
\* App renders again, and renderPageNumber reads window.innerWidth again,
\* only when a state variable of App changed.
\* ts, cmd, cfg, dflt: timers, media request and configuration-view state as
\* the handler left them.
Render(pages, msrc, mfile, mtype, left, playing, loading, app, ivs, ts, cmd, cfg, dflt) ==
    /\ sheetPages' = pages
    /\ mediaSrc' = msrc
    /\ mediaFile' = mfile
    /\ mediaType' = mtype
    /\ currentLeftIndex' = left
    /\ isPlaying' = playing
    /\ isLoading' = loading
    /\ appState' = app
    /\ pageIntervals' = ivs
    /\ Commit(ts, playing, app, left, ivs, Len(pages))
    /\ mediaCmd' = KeepCmd(cmd, loading, app, mtype, msrc)
    /\ cfgIntervals' =
          IF ConfigShown(loading, app)
          THEN (IF ConfigShown(isLoading, appState) THEN cfg ELSE ivs)
          ELSE <<>>
    /\ defaultInterval' =
          IF ConfigShown(loading, app) /\ ConfigShown(isLoading, appState)
          THEN dflt
          ELSE Num(InitialDefaultInterval)
    /\ narrow' = narrow
    /\ labelMobile' =
          IF <<pages, msrc, mfile, mtype, left, playing, loading, app, ivs>>
             # <<sheetPages, mediaSrc, mediaFile, mediaType, currentLeftIndex,
                 isPlaying, isLoading, appState, pageIntervals>>
          THEN narrow
          ELSE labelMobile

\* mutant of ResetPages: handleBackToUpload forgets setSheetPages([])
ResetPagesSkipped(pages) == pages

\* setSheetPages([])
ResetPages(pages) == <<>>

\* mutant of ResetMedia: handleBackToUpload forgets to set the media to null
ResetMediaSkipped(m) == m

\* setMediaSrc(null), setMediaFile(null), setMediaType(null)
ResetMedia(m) == "null"

\* handleBackToUpload(silent), followed by setIsLoading(loading)
BackToUpload(silent, loading) ==
    /\ Render(ResetPages(sheetPages), ResetMedia(mediaSrc),
              ResetMedia(mediaFile), ResetMedia(mediaType),
              0 - 1, FALSE, loading,
              IF silent THEN appState ELSE "upload", <<>>,
              timers, mediaCmd, cfgIntervals, defaultInterval)
    /\ Released(1, 1, TRUE, mediaSrc # "null")

(***************************************************************************)
(* Loading: handleFileUpload and its two continuations.                    *)
(***************************************************************************)
\* the decimal digits of a small number, as template literals print it
Str(n) ==
    IF n < 0 THEN "-" ELSE
    <<"0", "1", "2", "3", "4", "5", "6", "7", "8", "9">>[n + 1]

\* String(n): the decimal digits of n >= 0, one piece per digit
RECURSIVE Decimal(_)
Decimal(n) ==
    IF n < 10 THEN <<Str(n)>> ELSE Decimal(n \div 10) \o <<Str(n % 10)>>

\* digits.padStart(3, '0')
PadStart3(digits) ==
    IF Len(digits) >= 3 THEN digits
    ELSE [k \in 1..(3 - Len(digits)) |-> "0"] \o digits

\* `page_${String(i).padStart(3, '0')}.jpeg`: a file name is the sequence of
\* the pieces it is written with
PageFileName(i) == <<"page_">> \o PadStart3(Decimal(i)) \o <<".jpeg">>

\* the name of the manifest entry
SettingsName == <<"settings.json">>

\* a file name the manifest does not give (undefined)
NoName == <<>>

\* the pieces of the file names, in the order in which localeCompare puts
\* them: punctuation, digits, letters
Pieces ==
    <<".jpeg", ".mp3", ".mp4", ".png", "0", "1", "2", "3", "4", "5", "6",
      "7", "8", "9", "img/", "page_", "settings.json", "song">>

PieceRank(piece) == CHOOSE i \in DOMAIN Pieces : Pieces[i] = piece

\* a.localeCompare(b) < 0
RECURSIVE LocaleLess(_, _)
LocaleLess(a, b) ==
    IF a = <<>> THEN b # <<>>
    ELSE IF b = <<>> THEN FALSE
    ELSE IF Head(a) = Head(b) THEN LocaleLess(Tail(a), Tail(b))
    ELSE PieceRank(Head(a)) < PieceRank(Head(b))

\* one entry of zip.files: its name, whether it is a directory, its content
Entry(name, dir, blob) == [name |-> name, dir |-> dir, blob |-> blob]

\* mutant of InsertByName: the entry is appended, the list is not sorted
InsertAtEnd(f, sorted) == Append(sorted, f)

\* f put into a list sorted by name
RECURSIVE InsertByName(_, _)
InsertByName(f, sorted) ==
    IF sorted = <<>> THEN <<f>>
    ELSE IF LocaleLess(f.name, Head(sorted).name) THEN <<f>> \o sorted
    ELSE <<Head(sorted)>> \o InsertByName(f, Tail(sorted))

\* files.sort((a, b) => a.name.localeCompare(b.name))
RECURSIVE SortByName(_)
SortByName(files) ==
    IF files = <<>> THEN <<>>
    ELSE InsertByName(files[Len(files)], SortByName(SubSeq(files, 1, Len(files) - 1)))

\* zip.file(name): the positions of the file entry of that name
ZipFile(files, name) ==
    {i \in DOMAIN files : files[i].name = name /\ ~files[i].dir}

\* videoFilename || audioFilename
MediaFilename(a) ==
    IF a.videoFilename # NoName THEN a.videoFilename ELSE a.audioFilename

\* the filter of processZip: not a directory, not the manifest, not the media
IsImageFile(f, mediaFilename) ==
    /\ ~f.dir
    /\ f.name # SettingsName
    /\ f.name # mediaFilename

\* imageFiles of processZip: filtered, then sorted by name
ImageFiles(a) ==
    SortByName(SelectSeq(a.files,
                         LAMBDA f : IsImageFile(f, MediaFilename(a))))

\* URL.createObjectURL(blob): a URL is known by the content it gives access to
CreateObjectURL(blob) == [url |-> "blob:", blob |-> blob]

\* processZip: the session it returns, or the error it throws.
\* a.files: zip.files in the order of the archive; a.json, a.hasIntervals,
\* a.intervals, a.videoFilename, a.audioFilename: the text of settings.json
ProcessZip(a) ==
    IF ZipFile(a.files, SettingsName) = {}
    THEN [error |-> "settings.json not found"]
    ELSE IF a.json = "corrupt" THEN [error |-> "JSON.parse"]
    ELSE LET mediaFilename == MediaFilename(a)
             imageFiles == ImageFiles(a)
             mediaZipFile == IF mediaFilename = NoName THEN {}
                             ELSE ZipFile(a.files, mediaFilename)
         IN  [error |-> "none",
              pages |-> [i \in DOMAIN imageFiles |->
                            CreateObjectURL(imageFiles[i].blob)],
              intervals |-> IF a.hasIntervals THEN a.intervals ELSE <<>>,
              mediaFile |-> IF mediaZipFile # {} THEN mediaFilename
                            ELSE NoName,
              mediaType |->
                  IF mediaZipFile # {}
                  THEN (IF a.videoFilename # NoName THEN "video" ELSE "audio")
                  ELSE "null"]

\* the values a package manifest may carry in its interval list
ManifestValues == {Num(0), Num(2)}

ManifestIntervals ==
    UNION {[1..n -> ManifestValues] : n \in 0..(MaxPages + 1)}

\* the names of the media files of packages
AudioName == <<"song", ".mp3">>

VideoName == <<"song", ".mp4">>

\* what the packages loaded into the viewer differ in
PackageShapes ==
    [settings : {"missing", "corrupt", "ok"},
     hasIntervals : BOOLEAN,
     intervals : ManifestIntervals,
     videoFilename : BOOLEAN,
     audioFilename : BOOLEAN,
     mediaEntry : BOOLEAN,       \* zip.file(mediaFilename) exists
     nImages : 0..MaxPages]      \* the other non-directory entries

\* the package of a shape: the manifest, the pages under the names export
\* gives them, the media file
Package(p) ==
    LET video == IF p.videoFilename THEN VideoName ELSE NoName
        audio == IF p.audioFilename THEN AudioName ELSE NoName
        media == IF video # NoName THEN video ELSE audio
    IN  [files |->
            (IF p.settings = "missing" THEN <<>>
             ELSE <<Entry(SettingsName, FALSE, 0)>>)
            \o [i \in 1..p.nImages |-> Entry(PageFileName(i), FALSE, i)]
            \o (IF p.mediaEntry /\ media # NoName
                THEN <<Entry(media, FALSE, 0 - 1)>> ELSE <<>>),
         json |-> IF p.settings = "corrupt" THEN "corrupt" ELSE "ok",
         hasIntervals |-> p.hasIntervals,
         intervals |-> p.intervals,
         videoFilename |-> video,
         audioFilename |-> audio]

\* the packages loaded into the viewer
Archives == {Package(p) : p \in PackageShapes}

\* handleFileUpload up to its first await, for files with a zip among them
\* or without
HandleFileUpload ==
    /\ appState = "upload"
    /\ ~isLoading
    /\ BackToUpload(TRUE, TRUE)
    /\ \E kind \in {"zip", "files"} : pendingLoad' = kind
    /\ lastOp' = "upload"
    /\ UNCHANGED <<call, result, pendingPlays, stalePlays, edits>>

\* processZip resolved: the try block of the zip branch, then finally
ZipLoaded ==
    /\ pendingLoad = "zip"
    /\ \E a \in Archives :
          /\ ProcessZip(a).error = "none"
          /\ LET z == ProcessZip(a)
                 m == z.mediaType # "null"
             IN  /\ Render(Fill(Len(z.pages), "blob:"),
                           IF m THEN "blob:" ELSE mediaSrc,
                           IF m THEN "file" ELSE mediaFile,
                           IF m THEN z.mediaType ELSE mediaType,
                           0 - 1, FALSE, FALSE, "viewing", z.intervals,
                           timers, mediaCmd, cfgIntervals, defaultInterval)
                 /\ Released(0, 0, TRUE, m)
    /\ pendingLoad' = "none"
    /\ lastOp' = "zipLoaded"
    /\ UNCHANGED <<call, result, pendingPlays, stalePlays, edits>>

\* processZip threw: the catch block of the zip branch, then finally
ZipFailed ==
    /\ pendingLoad = "zip"
    /\ \E a \in Archives : ProcessZip(a).error # "none"
    /\ BackToUpload(FALSE, FALSE)
    /\ pendingLoad' = "none"
    /\ lastOp' = "zipFailed"
    /\ UNCHANGED <<call, result, pendingPlays, stalePlays, edits>>

\* the images/PDF branch ran to its end: n pages, a first video file and a
\* first audio file or not.  The pages are followed as object URLs, as those
\* of image files are; a rendered PDF page is a data URL, on which
\* revokeObjectURL does nothing.
FilesLoaded ==
    /\ pendingLoad = "files"
    /\ \E n \in 0..MaxPages, video \in BOOLEAN, audio \in BOOLEAN :
          /\ Render(Fill(n, "blob:"),
                    IF video \/ audio THEN "blob:" ELSE mediaSrc,
                    IF video \/ audio THEN "file" ELSE mediaFile,
                    IF video THEN "video"
                    ELSE IF audio THEN "audio" ELSE mediaType,
                    currentLeftIndex, isPlaying, FALSE, "configuring",
                    Fill(n, Num(FillSeconds)),
                    timers, mediaCmd, cfgIntervals, defaultInterval)
          /\ Released(0, 0, TRUE, video \/ audio)
    /\ pendingLoad' = "none"
    /\ lastOp' = "filesLoaded"
    /\ UNCHANGED <<call, result, pendingPlays, stalePlays, edits>>

\* processPdf rejected: the catch block inside the loop over the files
PdfFailed ==
    /\ pendingLoad = "files"
    /\ Render(sheetPages, mediaSrc, mediaFile, mediaType, currentLeftIndex,
              isPlaying, FALSE, appState, pageIntervals,
              timers, mediaCmd, cfgIntervals, defaultInterval)
    /\ pendingLoad' = "none"
    /\ NoRelease
    /\ lastOp' = "pdfFailed"
    /\ UNCHANGED <<call, result, pendingPlays, stalePlays, edits>>

(***************************************************************************)
(* The configuration view.                                                 *)
(***************************************************************************)
\* mutant of CoerceInterval: the "|| 1" is missing
CoerceIntervalNoFallback(value) == MathMax(Num(1), ParseInt(value))

\* Math.max(1, parseInt(value, 10)) || 1
CoerceInterval(value) == OrElse(MathMax(Num(1), ParseInt(value)), Num(1))

\* newIntervals of handleIntervalChange(index, value)
IntervalChanged(intervals, index, value) ==
    SetAt(intervals, index, CoerceInterval(value))

\* handleIntervalChange(index, value): one input per page
HandleIntervalChange ==
    /\ ConfigShown(isLoading, appState)
    /\ edits < MaxEdits
    /\ \E index \in 0..(totalPages - 1), value \in InputStrings :
          cfgIntervals' = IntervalChanged(cfgIntervals, index, value)
    /\ edits' = edits + 1
    /\ NoRelease
    /\ lastOp' = "intervalChange"
    /\ UNCHANGED <<call, result, narrow, labelMobile,
                   sheetPages, mediaSrc, mediaFile, mediaType,
                   currentLeftIndex, isPlaying, isLoading, appState,
                   pageIntervals, timerRef, timers, defaultInterval, mediaCmd,
                   pendingPlays, stalePlays, pendingLoad>>

\* onChange of the "Set all to" input
SetDefaultInterval ==
    /\ ConfigShown(isLoading, appState)
    /\ edits < MaxEdits
    /\ \E value \in InputStrings : defaultInterval' = ParseInt(value)
    /\ edits' = edits + 1
    /\ NoRelease
    /\ lastOp' = "setDefault"
    /\ UNCHANGED <<call, result, narrow, labelMobile,
                   sheetPages, mediaSrc, mediaFile, mediaType,
                   currentLeftIndex, isPlaying, isLoading, appState,
                   pageIntervals, timerRef, timers, cfgIntervals, mediaCmd,
                   pendingPlays, stalePlays, pendingLoad>>

\* Math.max(1, defaultInterval)
SetAllValue(dflt) == MathMax(Num(1), dflt)

\* handleSetAll
HandleSetAll ==
    /\ ConfigShown(isLoading, appState)
    /\ edits < MaxEdits
    /\ cfgIntervals' = Fill(totalPages, SetAllValue(defaultInterval))
    /\ edits' = edits + 1
    /\ NoRelease
    /\ lastOp' = "setAll"
    /\ UNCHANGED <<call, result, narrow, labelMobile,
                   sheetPages, mediaSrc, mediaFile, mediaType,
                   currentLeftIndex, isPlaying, isLoading, appState,
                   pageIntervals, timerRef, timers, defaultInterval, mediaCmd,
                   pendingPlays, stalePlays, pendingLoad>>

\* mutant of SavedPlaying: handleSaveConfiguration forgets setIsPlaying(false)
SavedPlayingKept(playing) == playing

\* isPlaying as handleSaveConfiguration leaves it: setIsPlaying(false)
SavedPlaying(playing) == FALSE

\* "Start Viewing": onSave(intervals) = handleSaveConfiguration
HandleSaveConfiguration ==
    /\ ConfigShown(isLoading, appState)
    /\ Render(sheetPages, mediaSrc, mediaFile, mediaType, 0 - 1,
              SavedPlaying(isPlaying), isLoading, "viewing", cfgIntervals,
              timers, mediaCmd, cfgIntervals, defaultInterval)
    /\ NoRelease
    /\ lastOp' = "save"
    /\ UNCHANGED <<call, result, pendingPlays, stalePlays, pendingLoad, edits>>

\* "Back to Upload": onCancel = handleBackToUpload()
CancelConfiguration ==
    /\ ConfigShown(isLoading, appState)
    /\ BackToUpload(FALSE, isLoading)
    /\ lastOp' = "cancel"
    /\ UNCHANGED <<call, result, pendingPlays, stalePlays, pendingLoad, edits>>

(***************************************************************************)
(* The viewing screen: header controls.                                    *)
(***************************************************************************)
\* the main view of App is rendered (neither the loading indicator nor the
\* configuration view)
MainShown == ~isLoading /\ appState # "configuring"

\* the viewing screen is shown
ViewingShown == ~isLoading /\ appState = "viewing"

\* "New Score": handleBackToUpload()
NewScore ==
    /\ MainShown
    /\ BackToUpload(FALSE, isLoading)
    /\ lastOp' = "newScore"
    /\ UNCHANGED <<call, result, pendingPlays, stalePlays, pendingLoad, edits>>

\* "Export": handleExport up to its first await; it returns at once
\* without pages
HandleExport ==
    /\ MainShown
    /\ totalPages # 0
    /\ Render(sheetPages, mediaSrc, mediaFile, mediaType, currentLeftIndex,
              isPlaying, TRUE, appState, pageIntervals,
              timers, mediaCmd, cfgIntervals, defaultInterval)
    /\ pendingLoad' = "export"
    /\ NoRelease
    /\ lastOp' = "export"
    /\ UNCHANGED <<call, result, pendingPlays, stalePlays, edits>>

\* handleExport after its awaits: the package was offered for download or
\* the catch block reported a failure; then finally
ExportSettled ==
    /\ pendingLoad = "export"
    /\ Render(sheetPages, mediaSrc, mediaFile, mediaType, currentLeftIndex,
              isPlaying, FALSE, appState, pageIntervals,
              timers, mediaCmd, cfgIntervals, defaultInterval)
    /\ pendingLoad' = "none"
    /\ NoRelease
    /\ lastOp' = "exportSettled"
    /\ UNCHANGED <<call, result, pendingPlays, stalePlays, edits>>

\* "Reconfigure": setAppState('configuring'); disabled without pages
Reconfigure ==
    /\ MainShown
    /\ totalPages # 0
    /\ Render(sheetPages, mediaSrc, mediaFile, mediaType, currentLeftIndex,
              isPlaying, isLoading, "configuring", pageIntervals,
              timers, mediaCmd, cfgIntervals, defaultInterval)
    /\ NoRelease
    /\ lastOp' = "reconfigure"
    /\ UNCHANGED <<call, result, pendingPlays, stalePlays, pendingLoad, edits>>

\* clearMedia; its button is rendered in viewing mode when mediaFile is set
ClearMedia ==
    /\ ViewingShown
    /\ mediaFile # "null"
    /\ Render(sheetPages, "null", "null", "null", currentLeftIndex, FALSE,
              isLoading, appState, pageIntervals,
              timers, IF MediaRefSet THEN "pause" ELSE mediaCmd,
              cfgIntervals, defaultInterval)
    /\ Released(0, 1, FALSE, mediaSrc # "null")
    /\ lastOp' = "clearMedia"
    /\ UNCHANGED <<call, result, pendingPlays, stalePlays, pendingLoad, edits>>

(***************************************************************************)
(* The playback controller.                                                *)
(***************************************************************************)
\* mutant of CanAdvance: the test looks one page ahead only
CanAdvanceOnePage(prev, total) == prev + 1 < total

\* the test of goToNextPage's updater
CanAdvance(prev, total) == prev + 2 < total

\* mutant of NextIndex: the updater advances without the test
NextIndexAlways(prev, total) == prev + 1

\* the index the updater of goToNextPage returns
NextIndex(prev, total) == IF CanAdvance(prev, total) THEN prev + 1 ELSE prev

\* mutant of NextPlaying: the else path forgets setIsPlaying(false)
NextPlayingKept(prev, total, playing) == playing

\* isPlaying after goToNextPage: setIsPlaying(false) on the else path
NextPlaying(prev, total, playing) ==
    IF CanAdvance(prev, total) THEN playing ELSE FALSE

\* the media request after goToNextPage: pause() on the else path
NextCmd(prev, total, mounted, cmd) ==
    IF ~CanAdvance(prev, total) /\ mounted THEN "pause" ELSE cmd

\* goToNextPage as created by a render with `total` pages, run with the
\* pending timers ts
GoToNextPage(total, ts) ==
    IF total = 0
    THEN Render(sheetPages, mediaSrc, mediaFile, mediaType, currentLeftIndex,
                isPlaying, isLoading, appState, pageIntervals,
                ts, mediaCmd, cfgIntervals, defaultInterval)
    ELSE Render(sheetPages, mediaSrc, mediaFile, mediaType,
                NextIndex(currentLeftIndex, total),
                NextPlaying(currentLeftIndex, total, isPlaying),
                isLoading, appState, pageIntervals,
                ts, NextCmd(currentLeftIndex, total, MediaRefSet, mediaCmd),
                cfgIntervals, defaultInterval)

\* the "next" button
ManualNext ==
    /\ ViewingShown
    /\ GoToNextPage(totalPages, timers)
    /\ NoRelease
    /\ lastOp' = "next"
    /\ UNCHANGED <<call, result, pendingPlays, stalePlays, pendingLoad, edits>>

\* a pending countdown fires: the goToNextPage its effect closed over
TimerFires ==
    /\ \E t \in timers : GoToNextPage(t.total, timers \ {t})
    /\ NoRelease
    /\ lastOp' = "timer"
    /\ UNCHANGED <<call, result, pendingPlays, stalePlays, pendingLoad, edits>>

\* mutant of PrevIndex: no clamp at the cover
PrevIndexUnclamped(prev) == prev - 1

\* Math.max(prev - 1, -1)
PrevIndex(prev) == IF prev - 1 >= 0 - 1 THEN prev - 1 ELSE 0 - 1

\* the "previous" button: goToPrevPage
ManualPrev ==
    /\ ViewingShown
    /\ Render(sheetPages, mediaSrc, mediaFile, mediaType,
              PrevIndex(currentLeftIndex), isPlaying, isLoading, appState,
              pageIntervals, timers, mediaCmd, cfgIntervals, defaultInterval)
    /\ NoRelease
    /\ lastOp' = "prev"
    /\ UNCHANGED <<call, result, pendingPlays, stalePlays, pendingLoad, edits>>

\* mutant of ToggleGuard: the test for an empty session is missing
ToggleGuardMissing(total) == TRUE

\* togglePlayPause does something: totalPages > 0
ToggleGuard(total) == total > 0

\* the play/pause button: togglePlayPause
TogglePlayPause ==
    /\ ViewingShown
    /\ IF ToggleGuard(totalPages)
       THEN LET newIsPlaying == ~isPlaying
                plays == MediaRefSet /\ newIsPlaying
            IN  /\ plays => pendingPlays < MaxPending
                /\ Render(sheetPages, mediaSrc, mediaFile, mediaType,
                          currentLeftIndex, newIsPlaying, isLoading, appState,
                          pageIntervals, timers,
                          IF MediaRefSet
                          THEN (IF newIsPlaying THEN "play" ELSE "pause")
                          ELSE mediaCmd,
                          cfgIntervals, defaultInterval)
                /\ pendingPlays' = IF plays THEN pendingPlays + 1
                                   ELSE pendingPlays
                /\ stalePlays' = IF newIsPlaying THEN pendingPlays
                                 ELSE stalePlays
                /\ lastOp' = IF newIsPlaying THEN "play" ELSE "pause"
       ELSE /\ Render(sheetPages, mediaSrc, mediaFile, mediaType,
                      currentLeftIndex, isPlaying, isLoading, appState,
                      pageIntervals, timers, mediaCmd, cfgIntervals,
                      defaultInterval)
            /\ pendingPlays' = pendingPlays
            /\ stalePlays' = stalePlays
            /\ lastOp' = "toggleNoop"
    /\ NoRelease
    /\ UNCHANGED <<call, result, pendingLoad, edits>>

(***************************************************************************)
(* Events of the media element.                                            *)
(***************************************************************************)
\* the promise that settles is one requested before the latest press of
\* play (TRUE) or the one that press requested (FALSE)
Settling ==
    {stale \in BOOLEAN : IF stale THEN stalePlays > 0
                         ELSE pendingPlays > stalePlays}

\* the earlier requests still pending after one promise settled
StaleLeft(stale) == IF stale THEN stalePlays - 1 ELSE stalePlays

\* the promise of play() resolves: playback started
PlayResolved ==
    /\ pendingPlays > 0
    /\ MediaRefSet
    /\ mediaCmd = "play"
    /\ pendingPlays' = pendingPlays - 1
    /\ \E stale \in Settling : stalePlays' = StaleLeft(stale)
    /\ NoRelease
    /\ lastOp' = "playResolved"
    /\ UNCHANGED <<call, result, narrow, labelMobile,
                   sheetPages, mediaSrc, mediaFile, mediaType,
                   currentLeftIndex, isPlaying, isLoading, appState,
                   pageIntervals, timerRef, timers, cfgIntervals,
                   defaultInterval, mediaCmd, pendingLoad, edits>>

\* mutant of AfterPlayFailed: the catch callback only logs
AfterPlayFailedLogged(playing) == playing

\* isPlaying as the catch callback of play() leaves it: setIsPlaying(false)
AfterPlayFailed(playing) == FALSE

\* the promise of play() rejects: the catch callback
PlayRejected ==
    /\ pendingPlays > 0
    /\ Render(sheetPages, mediaSrc, mediaFile, mediaType, currentLeftIndex,
              AfterPlayFailed(isPlaying), isLoading, appState, pageIntervals,
              timers, mediaCmd, cfgIntervals, defaultInterval)
    /\ pendingPlays' = pendingPlays - 1
    /\ \E stale \in Settling : stalePlays' = StaleLeft(stale)
    /\ NoRelease
    /\ lastOp' = "playFailed"
    /\ UNCHANGED <<call, result, pendingLoad, edits>>

\* mutant of AfterEnded: onEnded leaves isPlaying alone
AfterEndedIgnored(playing) == playing

\* isPlaying after onEnded: setIsPlaying(false)
AfterEnded(playing) == FALSE

\* onEnded of the <audio> or <video>: setIsPlaying(false).  The audio
\* element plays only on request; the video element has its own controls.
MediaEnded ==
    /\ MediaRefSet
    /\ mediaCmd = "play" \/ mediaType = "video"
    /\ Render(sheetPages, mediaSrc, mediaFile, mediaType, currentLeftIndex,
              AfterEnded(isPlaying), isLoading, appState, pageIntervals,
              timers, mediaCmd, cfgIntervals, defaultInterval)
    /\ NoRelease
    /\ lastOp' = "mediaEnded"
    /\ UNCHANGED <<call, result, pendingPlays, stalePlays, pendingLoad, edits>>

(***************************************************************************)
(* Specification.                                                          *)
(***************************************************************************)
Next ==
    \/ HandleFileUpload
    \/ ZipLoaded
    \/ ZipFailed
    \/ FilesLoaded
    \/ PdfFailed
    \/ HandleIntervalChange
    \/ SetDefaultInterval
    \/ HandleSetAll
    \/ HandleSaveConfiguration
    \/ CancelConfiguration
    \/ NewScore
    \/ HandleExport
    \/ ExportSettled
    \/ Reconfigure
    \/ ClearMedia
    \/ ManualNext
    \/ TimerFires
    \/ ManualPrev
    \/ TogglePlayPause
    \/ PlayResolved
    \/ PlayRejected
    \/ MediaEnded

Spec == Init /\ [][Next]_vars

\* the browser runs the callback of every timeout that stays pending; the
\* user and the media element may do nothing at all
FairSpec == Spec /\ WF_vars(TimerFires)

\* the window is resized across the md breakpoint (768px): the CSS of
\* SheetDisplay follows at once; no state of App changes, so App does not
\* render and the label stays as it was
Resize ==
    /\ narrow' = ~narrow
    /\ lastOp' = "resize"
    /\ NoRelease
    /\ UNCHANGED <<call, result, labelMobile, sheetPages, mediaSrc, mediaFile,
                   mediaType, currentLeftIndex, isPlaying, isLoading, appState,
                   pageIntervals, timerRef, timers, cfgIntervals,
                   defaultInterval, mediaCmd, pendingPlays, stalePlays,
                   pendingLoad,
                   edits>>

ViewNext ==
    \/ Next
    \/ Resize

\* the viewer in a window that can be resized
ViewSpec == Init /\ [][ViewNext]_vars

(***************************************************************************)
(* Export, and the functions of the program applied on their own to        *)
(* inputs drawn from bounded sets: processZip, export followed by import,  *)
(* handleIntervalChange and handleSetAll.                                   *)
(***************************************************************************)
\* JSON has no NaN and no holes: JSON.stringify writes null for both
Null == [t |-> "null", n |-> 0]

\* JSON.parse(JSON.stringify(v)) of an element of the interval list
JsonValue(v) == IF IsNum(v) THEN v ELSE Null

\* zip.file(name, data): a new entry, or new content for the entry of that name
ZipAdd(files, name, blob) ==
    IF \E i \in DOMAIN files : files[i].name = name
    THEN [i \in DOMAIN files |->
             IF files[i].name = name THEN Entry(name, FALSE, blob)
             ELSE files[i]]
    ELSE Append(files, Entry(name, FALSE, blob))

\* the loop of handleExport over the pages i..Len(pages): fetch, then zip.file
RECURSIVE AddPages(_, _, _)
AddPages(files, pages, i) ==
    IF i > Len(pages) THEN files
    ELSE AddPages(ZipAdd(files, PageFileName(i), pages[i].blob), pages, i + 1)

\* the content of the media file, a blob like those of the pages
MediaBlob == 0 - 1

SettingsBlob == 0

\* handleExport of a session x: the package offered for download, or the
\* failure its catch block reports.  fetch rejects for a revoked object URL.
ExportPackage(x) ==
    IF x.revoked THEN [error |-> "export"]
    ELSE LET withMedia == IF x.mediaFile # NoName
                          THEN ZipAdd(<<>>, x.mediaFile, MediaBlob)
                          ELSE <<>>
             withSettings == ZipAdd(withMedia, SettingsName, SettingsBlob)
         IN  [error |-> "none",
              archive |->
                 [files |-> AddPages(withSettings, x.pages, 1),
                  json |-> "ok",
                  hasIntervals |-> TRUE,
                  intervals |-> [i \in DOMAIN x.intervals |->
                                    JsonValue(x.intervals[i])],
                  videoFilename |-> IF x.mediaFile # NoName
                                       /\ x.mediaType = "video"
                                    THEN x.mediaFile ELSE NoName,
                  audioFilename |-> IF x.mediaFile # NoName
                                       /\ x.mediaType # "video"
                                    THEN x.mediaFile ELSE NoName]]

\* the zip branch of handleFileUpload on what processZip returned, starting
\* from the empty session handleBackToUpload(true) left
ImportedSession(z) ==
    IF z.error # "none" THEN [error |-> z.error]
    ELSE [error |-> "none",
          pages |-> z.pages,
          intervals |-> z.intervals,
          mediaType |-> z.mediaType,
          mediaFile |-> z.mediaFile,
          currentLeftIndex |-> 0 - 1,
          isPlaying |-> FALSE,
          appState |-> "viewing"]

\* export of x, then import of the package
RoundTrip(x) ==
    LET e == ExportPackage(x)
    IN  IF e.error # "none" THEN [error |-> e.error]
        ELSE ImportedSession(ProcessZip(e.archive))

\* entries of packages not made by export
EntryPool ==
    {Entry(SettingsName, FALSE, 0),
     Entry(<<"1", ".png">>, FALSE, 1),
     Entry(<<"1", "0", ".png">>, FALSE, 2),
     Entry(<<"2", ".png">>, FALSE, 3),
     Entry(AudioName, FALSE, 4),
     Entry(<<"img/">>, TRUE, 5)}

\* zip.files: up to MaxEntries entries of distinct names, in any order
Listings ==
    UNION {{f \in [1..n -> EntryPool] :
               \A i, j \in 1..n : i < j => f[i] # f[j]} : n \in 0..MaxEntries}

\* the file names a manifest may give
NamesGiven == {NoName, AudioName, <<"2", ".png">>}

ZipInputs ==
    [files : Listings,
     json : {"corrupt", "ok"},
     hasIntervals : BOOLEAN,
     intervals : {<<Num(2), Num(0)>>},
     videoFilename : NamesGiven,
     audioFilename : NamesGiven]

\* the values found in the interval list of a session
IntervalValues == {Num(1), Num(FillSeconds), NaN}

IntervalLists(n) == [1..n -> IntervalValues]

\* the sessions export is applied to: n pages, their URLs revoked or not
\* (clearMedia), one interval per page, no media or an audio or video file
ExportInputs ==
    UNION {[pages : {[i \in 1..n |-> CreateObjectURL(i)]},
            revoked : BOOLEAN,
            intervals : IntervalLists(n),
            mediaType : {"audio"},
            mediaFile : {AudioName}]
           \cup
           [pages : {[i \in 1..n |-> CreateObjectURL(i)]},
            revoked : BOOLEAN,
            intervals : IntervalLists(n),
            mediaType : {"video"},
            mediaFile : {VideoName}]
           \cup
           [pages : {[i \in 1..n |-> CreateObjectURL(i)]},
            revoked : BOOLEAN,
            intervals : IntervalLists(n),
            mediaType : {"null"},
            mediaFile : {NoName}] : n \in 1..MaxPages}

\* what can be typed into a number input
TypedStrings == InputStrings \cup {"-5", "2.5", "abc"}

\* the values of defaultInterval: the initial one and what typing leaves
DefaultIntervals ==
    {Num(InitialDefaultInterval)} \cup {ParseInt(v) : v \in TypedStrings}

Calls ==
    {[f |-> "processZip", archive |-> a] : a \in ZipInputs}
    \cup {[f |-> "export", session |-> x] : x \in ExportInputs}
    \cup UNION {[f : {"handleIntervalChange"},
                 intervals : IntervalLists(n),
                 index : 0..(n - 1),
                 value : TypedStrings] : n \in 1..MaxPages}
    \cup [f : {"handleSetAll"},
          pages : 0..MaxPages,
          defaultInterval : DefaultIntervals]

FunctionInit ==
    /\ AppInit
    /\ call \in Calls
    /\ result = NoCall

\* the viewer itself takes no step while a function is applied
AppIdle ==
    UNCHANGED <<sheetPages, mediaSrc, mediaFile, mediaType, currentLeftIndex,
                isPlaying, isLoading, appState, pageIntervals, timerRef,
                timers, cfgIntervals, defaultInterval, mediaCmd, pendingPlays,
                stalePlays,
                pendingLoad, edits, lastOp, pageRevokes, mediaRevokes,
                narrow, labelMobile, dropped, call>>

\* the value the function applied by call returned
Returned(value) == [f |-> call.f, value |-> value]

ApplyProcessZip ==
    /\ call.f = "processZip"
    /\ result.f = "none"
    /\ result' = Returned(ProcessZip(call.archive))
    /\ AppIdle

ApplyRoundTrip ==
    /\ call.f = "export"
    /\ result.f = "none"
    /\ result' = Returned(RoundTrip(call.session))
    /\ AppIdle

ApplyIntervalChange ==
    /\ call.f = "handleIntervalChange"
    /\ result.f = "none"
    /\ result' = Returned(IntervalChanged(call.intervals, call.index,
                                          call.value))
    /\ AppIdle

ApplySetAll ==
    /\ call.f = "handleSetAll"
    /\ result.f = "none"
    /\ result' = Returned(Fill(call.pages, SetAllValue(call.defaultInterval)))
    /\ AppIdle

FunctionNext ==
    \/ ApplyProcessZip
    \/ ApplyRoundTrip
    \/ ApplyIntervalChange
    \/ ApplySetAll

FunctionSpec == FunctionInit /\ [][FunctionNext]_vars

(***************************************************************************)
(* The footer: the "next" button and the page-range label.                 *)
(***************************************************************************)
\* mutant of NextDisabled: the button stays enabled until the last page
NextDisabledAtLast(left, total) == left >= total - 1

\* disabled of the "next" button
NextDisabled(left, total) == left >= total - 2

\* SheetDisplay: the numbers (from 1) of the pages whose <img> is visible;
\* below the md breakpoint the md:hidden block, else the hidden md:flex one
Displayed(pages, leftIndex, mobile) ==
    LET shown(i) == i + 1 \in DOMAIN pages
    IN  IF mobile
        THEN {i + 1 : i \in {j \in {leftIndex + 1} : shown(j)}}
        ELSE {i + 1 : i \in {j \in {leftIndex} : j >= 0 /\ shown(j)}}
             \cup {i + 1 : i \in {j \in {leftIndex + 1} :
                                     j < Len(pages) /\ shown(j)}}

\* renderPageNumber returns null
NoLabel == <<>>

\* renderPageNumber, the label as the pieces of its template literal
RenderPageNumber(isMobile) ==
    IF totalPages = 0 \/ appState # "viewing" THEN NoLabel
    ELSE IF isMobile
    THEN <<"Page ", Str(currentLeftIndex + 1 + 1), " of ", Str(totalPages)>>
    ELSE IF currentLeftIndex = 0 - 1
    THEN <<"Cover (Page 1 of ", Str(totalPages), ")">>
    ELSE IF currentLeftIndex >= totalPages - 2
    THEN <<"Pages ", Str(totalPages - 1), "-", Str(totalPages), " of ",
           Str(totalPages)>>
    ELSE <<"Pages ", Str(currentLeftIndex + 1), "-",
           Str(currentLeftIndex + 2), " of ", Str(totalPages)>>

(***************************************************************************)
(* Claims.                                                                 *)
(***************************************************************************)
\* the handler that just ran was next(): the button or a countdown
NextRan == lastOp' \in {"next", "timer"}

\* C1: whenever the session is configured or viewed, the interval list has
\* as many entries as the page list (after a load from files or from a
\* package, after an edit, after set-all, after saving).
C1_IntervalsMatchPages ==
    /\ appState \in {"configuring", "viewing"} =>
          Len(pageIntervals) = Len(sheetPages)
    /\ ConfigShown(isLoading, appState) =>
          Len(cfgIntervals) = Len(sheetPages)

\* C2: on a non-empty session next() adds one to leftIndex and leaves
\* playing alone exactly when leftIndex + 2 < pages.length held before; so
\* leftIndex never passes N - 2 on a session of N >= 2 pages.
C2_NextAdvancesIffRoom ==
    /\ [][(NextRan /\ totalPages > 0) =>
            ((/\ currentLeftIndex' = currentLeftIndex + 1
              /\ isPlaying' = isPlaying)
             <=> currentLeftIndex + 2 < totalPages)]_vars
    /\ [](totalPages >= 2 => currentLeftIndex <= totalPages - 2)

\* C2 witness: the N - 1 = 2 advances of a 3-page session have been made
C2_Witness ==
    /\ lastOp = "next"
    /\ totalPages = 3
    /\ currentLeftIndex = 1

\* C3: at the terminal spread of a non-empty session next() leaves
\* leftIndex unchanged, leaves playing false and asks mounted media to pause;
\* the spread is still terminal afterwards, so this holds for any number of
\* calls.
C3_NextIdempotentAtEnd ==
    [][(/\ NextRan
        /\ totalPages > 0
        /\ currentLeftIndex + 2 >= totalPages) =>
           (/\ currentLeftIndex' = currentLeftIndex
            /\ totalPages' = totalPages
            /\ isPlaying' = FALSE
            /\ MediaRefSet => mediaCmd' = "pause")]_vars

\* C3 witness: next() was called at the terminal spread of a session whose
\* media had been asked to play
C3_Witness ==
    /\ lastOp = "next"
    /\ totalPages >= 2
    /\ currentLeftIndex = totalPages - 2
    /\ pendingPlays > 0
    /\ mediaCmd = "pause"
    /\ ~isPlaying

\* C4: prev() sets leftIndex to max(leftIndex - 1, -1), never below -1,
\* and never changes playing.
C4_PrevClamps ==
    /\ [][lastOp' = "prev" =>
            (/\ currentLeftIndex' =
                  (IF currentLeftIndex > 0 - 1 THEN currentLeftIndex - 1
                   ELSE 0 - 1)
             /\ isPlaying' = isPlaying)]_vars
    /\ [](currentLeftIndex >= 0 - 1)

\* C4 witness: a rewind to the cover while playing
C4_Witness ==
    /\ lastOp = "prev"
    /\ isPlaying
    /\ currentLeftIndex = 0 - 1
    /\ totalPages = 3

\* the variables of the session and the controller
session == <<sheetPages, mediaSrc, mediaFile, mediaType, currentLeftIndex,
             isPlaying, isLoading, appState, pageIntervals, timerRef, timers,
             mediaCmd, pendingPlays>>

\* C5: on a session without pages play(), next() and prev() change nothing:
\* leftIndex stays -1, playing stays false, no countdown is armed, no
\* playback is requested and there is no page-range label.
C5_EmptySessionNoOps ==
    /\ [][(/\ totalPages = 0
           /\ lastOp' \in {"play", "pause", "toggleNoop", "next", "prev"}) =>
              UNCHANGED session]_vars
    /\ [](totalPages = 0 =>
            /\ currentLeftIndex = 0 - 1
            /\ ~isPlaying
            /\ timers = {}
            /\ mediaCmd # "play"
            /\ \A isMobile \in BOOLEAN : RenderPageNumber(isMobile) = NoLabel)

\* C5 witness: play was pressed on a viewed session without pages that has
\* an audio element
C5_Witness ==
    /\ lastOp = "toggleNoop"
    /\ totalPages = 0
    /\ appState = "viewing"
    /\ MediaRefSet

\* C6: a failed start of the media reverts playing to false, changes
\* neither leftIndex nor the intervals nor the screen shown, leaves no
\* countdown armed, and play can be pressed again.
C6_PlayFailureReverts ==
    /\ [][lastOp' = "playFailed" =>
            (/\ isPlaying' = FALSE
             /\ timers' = {}
             /\ UNCHANGED <<currentLeftIndex, pageIntervals, sheetPages,
                            appState, isLoading, mediaType>>)]_vars
    /\ []((lastOp = "playFailed" /\ ViewingShown) => ENABLED TogglePlayPause)

\* C6 witness: the start requested by play() failed on the viewing screen
C6_Witness ==
    /\ lastOp = "playFailed"
    /\ ViewingShown
    /\ MediaRefSet
    /\ mediaCmd = "play"
    /\ ~isPlaying
    /\ currentLeftIndex >= 0

\* C7: pause() sets playing to false, disarms the countdown, asks mounted
\* media to pause and leaves leftIndex alone; while paused nothing is armed.
C7_PauseDisarms ==
    /\ [][lastOp' = "pause" =>
            (/\ isPlaying' = FALSE
             /\ timers' = {}
             /\ MediaRefSet => mediaCmd' = "pause"
             /\ currentLeftIndex' = currentLeftIndex)]_vars
    /\ [](~isPlaying => timers = {})

\* C7 witness: paused away from the terminal spread, with media
C7_Witness ==
    /\ lastOp = "pause"
    /\ mediaCmd = "pause"
    /\ currentLeftIndex + 2 < totalPages

\* the duration C8 states: the entry of the interval list, 30 without one
StatedSeconds ==
    LET v == At(pageIntervals, currentLeftIndex + 1)
    IN  IF v = Undefined THEN FallbackSeconds
        ELSE IF IsNum(v) THEN v.n
        ELSE 0 - 1

\* C8: while playing in viewing mode away from the terminal spread, one
\* countdown is armed, for intervals[leftIndex + 1] seconds (30 when the
\* list has no such entry); otherwise none is armed.
C8_CountdownArmedWithInterval ==
    IF isPlaying /\ appState = "viewing" /\ currentLeftIndex + 2 < totalPages
    THEN \E t \in timers : timers = {t} /\ t.secs = StatedSeconds
    ELSE timers = {}

\* C9: at most one countdown is pending, and it is the one timerRef holds.
C9_OneCountdown ==
    /\ Cardinality(timers) <= 1
    /\ \A t \in timers : t.id = timerRef

\* C9 witness: re-armed once after a manual rewind while playing
C9_Witness ==
    /\ lastOp = "prev"
    /\ isPlaying
    /\ Cardinality(timers) = 1

\* C10: every pending countdown was armed for the current spread of the
\* current session, so a disarmed one never fires; a firing advances
\* leftIndex by one from where the countdown was armed.
C10_NoStaleCountdown ==
    /\ [](\A t \in timers :
            /\ t.at = currentLeftIndex
            /\ t.total = totalPages
            /\ isPlaying
            /\ appState = "viewing")
    /\ [][lastOp' = "timer" =>
            \E t \in timers : currentLeftIndex' = t.at + 1]_vars

\* C10 witness: a countdown armed after a manual next() has fired
C10_Witness ==
    /\ lastOp = "timer"
    /\ isPlaying
    /\ currentLeftIndex = 1
    /\ timers = {}

\* C11: saving the configuration view makes the list edited there the
\* session's intervals and, whatever the state before (playing or not, at
\* any spread), leaves leftIndex = -1, playing = false and viewing mode; the
\* pages and the media are the same, and none of their URLs is revoked.
C11_SaveResets ==
    [][lastOp' = "save" =>
         (/\ pageIntervals' = cfgIntervals
          /\ currentLeftIndex' = 0 - 1
          /\ isPlaying' = FALSE
          /\ appState' = "viewing"
          /\ timers' = {}
          /\ UNCHANGED <<sheetPages, mediaSrc, mediaFile, mediaType,
                         pageRevokes>>
          /\ dropped' = NoDrop)]_vars

\* C11 witness: a session with media, reconfigured, one interval edited
\* away from the 30 of the load, and saved
C11_Witness ==
    /\ lastOp = "save"
    /\ totalPages = 3
    /\ mediaSrc # "null"
    /\ \E i \in 1..Len(pageIntervals) : pageIntervals[i] = Num(2)
    /\ \E i \in 1..Len(pageIntervals) : pageIntervals[i] = Num(FillSeconds)
    /\ currentLeftIndex = 0 - 1
    /\ ~isPlaying

\* C12: the ended event of the media element sets playing to false at any
\* spread, terminal or not, and changes neither leftIndex nor the pages,
\* the intervals or the media; after it no countdown is pending.
C12_EndedStopsOnly ==
    [][lastOp' = "mediaEnded" =>
         (/\ isPlaying' = FALSE
          /\ timers' = {}
          /\ UNCHANGED <<currentLeftIndex, sheetPages, pageIntervals,
                         mediaSrc, mediaFile, mediaType, appState,
                         pageRevokes>>
          /\ dropped' = NoDrop)]_vars

\* C12 witness: the media ended away from the terminal spread, after play
\* had been requested and one page had been turned
C12_Witness ==
    /\ lastOp = "mediaEnded"
    /\ mediaCmd = "play"
    /\ currentLeftIndex = 0
    /\ currentLeftIndex + 2 < totalPages
    /\ ~isPlaying

\* since play() was pressed, nothing happened but its media starting and
\* countdowns firing: no user intent, no failure, no media-ended event
OnlyCountdownsSincePlay == lastOp \in {"play", "playResolved", "timer"}

\* C13: when play() was pressed on a session with pages (with or without
\* media) and from then on only countdowns fire, then, the countdowns firing
\* fairly, playing eventually becomes false: auto-advance stops by itself
\* at the terminal spread.
C13_AutoStopByExhaustion ==
    []((/\ lastOp = "play"
        /\ totalPages > 0
        /\ []OnlyCountdownsSincePlay) => <>(~isPlaying))

\* C14: every object URL that leaves the session (new session, clear
\* media, replacement by a load) has been revoked exactly once by then:
\* not twice, not zero times.
C14_ReleasedExactlyOnce ==
    /\ dropped.pages \in {0 - 1, 1}
    /\ dropped.media \in {0 - 1, 1}

\* the session holds no object URL
HoldsNothing == sheetPages = <<>> /\ mediaSrc = "null"

\* C15: while a load is under way the session holds no handle, so the step
\* that adopts the pages and the media of the new load starts from a session
\* holding none of an earlier load; and whatever left the session had been
\* revoked by then.  No state mixes handles of two loads.
C15_OldReleasedBeforeNewAdopted ==
    /\ [](pendingLoad \in {"zip", "files"} => HoldsNothing)
    /\ [][(\/ lastOp' \in {"zipLoaded", "filesLoaded"}
           \/ sheetPages' # sheetPages /\ sheetPages' # <<>>
           \/ mediaSrc' # mediaSrc /\ mediaSrc' # "null") =>
              HoldsNothing]_vars
    /\ [](dropped.pages # 0 /\ dropped.media # 0)

\* C15 witness: a package with pages and media was loaded after an earlier
\* session had been configured
C15_Witness ==
    /\ lastOp = "zipLoaded"
    /\ edits > 0
    /\ totalPages > 0
    /\ mediaSrc # "null"

\* the session as it is before anything was loaded
EmptySession ==
    /\ sheetPages = <<>>
    /\ pageIntervals = <<>>
    /\ mediaSrc = "null"
    /\ mediaFile = "null"
    /\ mediaType = "null"
    /\ currentLeftIndex = 0 - 1
    /\ ~isPlaying
    /\ appState = "upload"

\* C16: a load is requested from the empty session of the upload screen, and
\* a failed load (a PDF that cannot be processed, a package without
\* manifest or with a manifest that does not parse) ends in that same
\* session: pages, intervals, media, leftIndex, playing and the mode are what
\* they were before the request, and nothing of the load was adopted.
C16_FailedLoadChangesNothing ==
    /\ [][lastOp' = "upload" => EmptySession]_vars
    /\ [][lastOp' \in {"zipFailed", "pdfFailed"} =>
            (EmptySession' /\ ~isLoading')]_vars

\* C16 witness: a PDF failed to load on the upload screen reached from an
\* earlier, configured session
C16_Witness ==
    /\ lastOp = "pdfFailed"
    /\ edits > 0

\* the argument of the processZip call that has returned
Zipped == call.archive

\* the media entry the manifest names: videoFilename, else audioFilename
NamedMedia == IF Zipped.videoFilename # NoName THEN Zipped.videoFilename
              ELSE Zipped.audioFilename

HasManifest ==
    \E i \in DOMAIN Zipped.files :
       Zipped.files[i].name = SettingsName /\ ~Zipped.files[i].dir

\* the entries that are to become pages
PageEntries ==
    {i \in DOMAIN Zipped.files :
        /\ ~Zipped.files[i].dir
        /\ Zipped.files[i].name # SettingsName
        /\ Zipped.files[i].name # NamedMedia}

\* the name of the entry a page URL was made from
NameOfPage(page) ==
    LET i == CHOOSE i \in DOMAIN Zipped.files :
                 Zipped.files[i].blob = page.blob
    IN  Zipped.files[i].name

\* C17: processZip of a package with a readable manifest returns as pages
\* exactly the non-directory entries other than the manifest and the media
\* entry the manifest names, each once, in ascending order of entry name,
\* and a media resource iff the named entry exists: video if the manifest
\* has videoFilename, audio otherwise.  Without a manifest it fails with
\* "settings.json not found" and returns no pages.
C17_ProcessZipResult ==
    (result.f = "processZip") =>
       LET z == result.value
       IN  /\ ~HasManifest => z.error = "settings.json not found"
           /\ (HasManifest /\ Zipped.json = "ok") =>
                 /\ z.error = "none"
                 /\ Len(z.pages) = Cardinality(PageEntries)
                 /\ {z.pages[k].blob : k \in DOMAIN z.pages}
                       = {Zipped.files[i].blob : i \in PageEntries}
                 /\ \A k, l \in DOMAIN z.pages :
                       k < l => LocaleLess(NameOfPage(z.pages[k]),
                                           NameOfPage(z.pages[l]))
                 /\ (z.mediaType # "null") <=>
                       \E i \in DOMAIN Zipped.files :
                          /\ ~Zipped.files[i].dir
                          /\ Zipped.files[i].name = NamedMedia
                 /\ z.mediaType # "null" =>
                       /\ z.mediaFile = NamedMedia
                       /\ z.mediaType = IF Zipped.videoFilename # NoName
                                        THEN "video" ELSE "audio"
           /\ z.error # "none" => DOMAIN z = {"error"}

C17_Witness ==
    /\ result.f = "processZip"
    /\ result.value.error = "none"
    /\ Len(result.value.pages) = 2
    /\ Zipped.files[1].name = <<"2", ".png">>
    /\ Zipped.files[2].name = <<"1", "0", ".png">>
    /\ result.value.pages[1].blob = 2
    /\ result.value.mediaType = "audio"


\* the session export was applied to
Exported == call.session

\* C18: exporting a viewing session with at least one page and importing the
\* package gives a session with the same pages in the same order, the same
\* list of intervals, the same media kind and file name (none stays none),
\* at the cover (leftIndex -1) and not playing.
C18_RoundTrip ==
    (result.f = "export" /\ Len(Exported.pages) >= 1) =>
       LET y == result.value
       IN  /\ y.error = "none"
           /\ Len(y.pages) = Len(Exported.pages)
           /\ \A i \in DOMAIN y.pages : y.pages[i].blob = Exported.pages[i].blob
           /\ y.intervals = Exported.intervals
           /\ y.mediaType = Exported.mediaType
           /\ y.mediaFile = Exported.mediaFile
           /\ y.currentLeftIndex = 0 - 1
           /\ ~y.isPlaying


\* the number of seconds typed: the integer parseInt reads
Typed == ParseInt(call.value)

\* C19: handleIntervalChange(index, value) with an index inside the list
\* stores the typed number when it is at least 1, and 1 when it is zero,
\* negative or not a number; every other entry and the length of the list
\* are unchanged, and a list is returned for every input.
C19_IntervalCoerced ==
    (result.f = "handleIntervalChange") =>
       LET r == result.value
           at == call.index + 1
       IN  /\ Len(r) = Len(call.intervals)
           /\ r[at] = IF IsNum(Typed) /\ Typed.n >= 1 THEN Typed ELSE Num(1)
           /\ \A j \in DOMAIN r : j # at => r[j] = call.intervals[j]

C19_Witness ==
    /\ result.f = "handleIntervalChange"
    /\ call.value = ""
    /\ Len(call.intervals) = MaxPages
    /\ call.index = 1
    /\ call.intervals[1] = NaN
    /\ call.intervals[2] = Num(FillSeconds)
    /\ result.value[2] = Num(1)

\* C20: handleSetAll makes the list have one entry per page, all equal to
\* v, where v is the number in the "Set all to" field if it is at least 1
\* and 1 for every other content of the field: 0, a negative number, or no
\* number (the emptied field).
C20_SetAllClamped ==
    (result.f = "handleSetAll") =>
       LET seconds == call.defaultInterval
           v == IF IsNum(seconds) /\ seconds.n >= 1 THEN seconds ELSE Num(1)
       IN  /\ Len(result.value) = call.pages
           /\ \A i \in DOMAIN result.value : result.value[i] = v


\* C21: in every viewing state every entry of the session's interval list
\* is an integer of at least 1, however the session was produced: upload
\* with default fill, edits in the configuration view, or import of a
\* package whose manifest holds any interval values.
C21_IntervalsPositive ==
    (appState = "viewing") =>
       \A i \in DOMAIN pageIntervals :
          IsNum(pageIntervals[i]) /\ pageIntervals[i].n >= 1


\* C24: no handle is released while the session still refers to it: the
\* URL of every page in sheetPages and the URL in mediaSrc have received no
\* revokeObjectURL call; in particular clear-media revokes no URL of the
\* pages still displayed.
C24_HeldHandlesLive ==
    /\ sheetPages # <<>> => pageRevokes = 0
    /\ mediaSrc # "null" => mediaRevokes = 0


\* C25: in every reachable state leftIndex >= -1; with N >= 1 pages
\* leftIndex <= N - 2, so the right-hand page leftIndex + 1 exists and the
\* spread with an elided right page is never shown; with no pages
\* leftIndex = -1.
C25_LeftIndexRange ==
    /\ currentLeftIndex >= 0 - 1
    /\ totalPages >= 1 =>
          /\ currentLeftIndex <= totalPages - 2
          /\ currentLeftIndex + 1 + 1 \in DOMAIN sheetPages
    /\ totalPages = 0 => currentLeftIndex = 0 - 1

C25_Witness ==
    /\ lastOp = "timer"
    /\ totalPages = MaxPages
    /\ currentLeftIndex = totalPages - 2


\* C27: isPlaying is true only in viewing mode with at least one page: on
\* the upload screen, in the configuration view and with an empty page
\* list it is false, also after Reconfigure pressed while playing, New
\* Score, clear-media or a load.
C27_PlayingOnlyWhenViewing ==
    (appState # "viewing" \/ totalPages = 0) => ~isPlaying


\* the label as one string
RECURSIVE Text(_)
Text(pieces) ==
    IF pieces = <<>> THEN "" ELSE Head(pieces) \o Text(Tail(pieces))

\* the terminal form of the label: "Pages (N-1)-N of N"
TerminalText ==
    "Pages " \o Str(totalPages - 1) \o "-" \o Str(totalPages) \o " of "
    \o Str(totalPages)

\* next() refuses to advance
Refuses == ~CanAdvance(currentLeftIndex, totalPages)

Label == RenderPageNumber(labelMobile)

\* the number a piece of the label prints
NumberOf(piece) == CHOOSE n \in 0..9 : Str(n) = piece

\* the page numbers a label names
PagesNamed(label) ==
    IF label[1] = "Page " THEN {NumberOf(label[2])}
    ELSE IF label[1] = "Pages " THEN {NumberOf(label[2]), NumberOf(label[4])}
    ELSE {1}

\* the label the claim states for the spread on the screen
StatedLabel ==
    IF narrow
    THEN "Page " \o Str(currentLeftIndex + 1 + 1) \o " of " \o Str(totalPages)
    ELSE IF currentLeftIndex = 0 - 1
    THEN "Cover (1 of " \o Str(totalPages) \o ")"
    ELSE IF Refuses
    THEN TerminalText
    ELSE "Pages " \o Str(currentLeftIndex + 1) \o "-"
         \o Str(currentLeftIndex + 2) \o " of " \o Str(totalPages)

\* C22: in viewing mode with N >= 1 pages the label of the current spread
\* is "Cover (1 of N)" at the cover, "Pages (N-1)-N of N" at the terminal
\* spread and "Pages (leftIndex+1)-(leftIndex+2) of N" at any other; in
\* single-page mode the page shown is the one of index leftIndex + 1 and
\* the label is "Page (leftIndex+2) of N"; the page numbers of the label
\* lie in 1..N and are exactly the pages displayed.
C22_LabelNamesSpread ==
    (appState = "viewing" /\ ~isLoading /\ totalPages >= 1) =>
       /\ Text(Label) = StatedLabel
       /\ narrow =>
             Displayed(sheetPages, currentLeftIndex, TRUE)
                = {currentLeftIndex + 1 + 1}
       /\ PagesNamed(Label) \subseteq 1..totalPages
       /\ PagesNamed(Label) = Displayed(sheetPages, currentLeftIndex, narrow)


\* the catch callback that just ran belongs to a play() requested before
\* the latest press of play
StaleFailure == lastOp' = "playFailed" /\ stalePlays' < stalePlays

\* C26: a failure of play() reverts only the request that caused it: the
\* catch callback of an earlier play(), delivered after the user has pressed
\* play again, does not set isPlaying to false for the later play.
C26_StaleFailureIgnored ==
    [][StaleFailure => isPlaying' = isPlaying]_vars


\* playing in viewing mode at a spread that is not the terminal one
Advancing ==
    /\ isPlaying
    /\ appState = "viewing"
    /\ totalPages >= 1
    /\ currentLeftIndex + 2 < totalPages

\* C28: while playing in viewing mode at a non-terminal spread a countdown
\* armed at the current leftIndex is pending; a countdown fires only there
\* and moves leftIndex up by exactly one, and the promise of play()
\* resolving moves nothing; so with fair firing, and nothing but countdowns
\* happening after play was pressed, leftIndex reaches the terminal value
\* N - 2, through each value in between once, in increasing order.
C28_AutoAdvanceProgress ==
    /\ [](Advancing => \E t \in timers : t.at = currentLeftIndex)
    /\ [][lastOp' = "timer" =>
             /\ Advancing
             /\ currentLeftIndex' = currentLeftIndex + 1]_vars
    /\ [][lastOp' = "playResolved" =>
             currentLeftIndex' = currentLeftIndex]_vars
    /\ []((Advancing /\ []OnlyCountdownsSincePlay)
          => <>(currentLeftIndex = totalPages - 2 /\ timers = {}))

C28_Witness ==
    /\ lastOp = "timer"
    /\ isPlaying
    /\ mediaSrc = "null"
    /\ totalPages = MaxPages
    /\ currentLeftIndex = totalPages - 2
    /\ timers = {}

====
